---- MODULE Spec2Model ----
(***************************************************************************)
(* Model of src/VK_Data.py: the retrying API client (vk_api_request), the  *)
(* profile normalizer (process_profile), the graph store (Neo4jHandler),   *)
(* the per-user crawl step (get_user_data), the depth-limited recursion    *)
(* (get_detailed_data) and the entry point (main).                         *)
(*                                                                         *)
(* Identifiers.  The root identifier comes from input() and is a Python    *)
(* str; the ids found in friend records are Python ints.  "1" and 1 are    *)
(* different members of a Python set, so an identifier is modelled as a    *)
(* tagged pair <<"str", n>> or <<"int", n>>; both name remote user n.      *)
(* Group ids are turned into str by str(sub['id']) before they are joined  *)
(* into the group_ids parameter, and come back as ints in the records of   *)
(* groups.getById.                                                         *)
(***************************************************************************)
EXTENDS Integers, Sequences, FiniteSets, TLC

\* ---------------------------------------------------------------- bounds
NUsers == 3
MaxEdges == 3
MaxDepthLimit == 3
MaxFaults == 1
MaxRuns == 2
MaxPages == 6
MaxRetries == 3
MaxFaultPos == 4

\* ------------------------------------------------------ program constants
Retries == 3
Delay == 2
PrivateErrorCode == 30
CountPerRequest == 200
ChunkSize == 500
DefaultDepthLimit == 3
DefaultFriendsLimit == 100
DefaultSubscriptionsLimit == 300

\* ---------------------------------------------------------------- helpers
Min(a, b) == IF a < b THEN a ELSE b
Max(a, b) == IF a > b THEN a ELSE b
CeilDiv(a, b) == (a + b - 1) \div b

StrId(n) == <<"str", n>>
IntId(n) == <<"int", n>>
\* int(s) as the remote API reads an identifier given as text or number
IdValue(key) == key[2]

RECURSIVE Concat(_)
Concat(ss) == IF ss = <<>> THEN <<>> ELSE Head(ss) \o Concat(Tail(ss))

\* Python s[:n], negative n included
PyPrefix(s, n) ==
    IF n >= 0 THEN SubSeq(s, 1, Min(n, Len(s)))
    ELSE SubSeq(s, 1, Max(0, Len(s) + n))

Users == 1..NUsers
Root == 1

\* ------------------------------------------------------------- ApiClient
\* What one HTTP exchange can produce.
\*   ok      : 2xx, JSON body with a 'response' key
\*   http    : raise_for_status() raises HTTPError
\*   net     : requests.get raises a RequestException
\*   badjson : response.json() raises
\*   error c : 2xx, JSON body with an 'error' key carrying error_code c
Responses ==
    { [kind |-> "ok", code |-> 0], [kind |-> "http", code |-> 0],
      [kind |-> "net", code |-> 0], [kind |-> "badjson", code |-> 0] }
    \cup { [kind |-> "error", code |-> c] : c \in {5, 6, PrivateErrorCode} }

RespOk == [kind |-> "ok", code |-> 0]
RespNet == [kind |-> "net", code |-> 0]
RespPrivate == [kind |-> "error", code |-> PrivateErrorCode]
RespError == [kind |-> "error", code |-> 6]

ApiStart == [attempt |-> 0, sleeps |-> 0, status |-> "running", result |-> "none"]

\* the test of line 21: which reported error code is the private profile
IsPrivateCodeAny(code) == code # 0
IsPrivateCode(code) == code = PrivateErrorCode

\* what follows a failed attempt (lines 34-35): the delay is slept after
\* every failed attempt, the last one of the budget included
SleepAfterFailure(attempt, retries) == 1

\* one iteration of the loop of lines 15-35, for the response resp
ApiAttempt(st, resp, retries) ==
    LET n == st.attempt + 1 IN
    IF resp.kind = "ok"
      THEN [st EXCEPT !.attempt = n, !.status = "returned", !.result = "response"]
    ELSE IF resp.kind = "error" /\ IsPrivateCode(resp.code)
      THEN [st EXCEPT !.attempt = n, !.status = "returned", !.result = "is_private"]
    ELSE [st EXCEPT !.attempt = n,
                    !.sleeps = st.sleeps + SleepAfterFailure(n, retries)]

\* line 37: the loop is over and nothing was returned
ApiGiveUpNever(st) == st
ApiGiveUp(st) == [st EXCEPT !.status = "raised", !.result = "exception"]

\* the whole call: resps[k] is what the k-th exchange produces
RECURSIVE vk_api_request(_, _, _)
vk_api_request(st, resps, retries) ==
    IF st.status # "running" THEN st
    ELSE IF st.attempt >= retries THEN ApiGiveUp(st)
    ELSE vk_api_request(ApiAttempt(st, resps[st.attempt + 1], retries), resps, retries)

\* ------------------------------------------------------ ProfileNormalizer
\* A raw profile record, reduced to the keys is_private depends on.  A key
\* is "absent", or present with a false or a true value; the key
\* 'deactivated' only matters by its presence.
Tri == {"absent", "false", "true"}
RawShapes == [deactivated : BOOLEAN, is_closed : Tri, can_access_closed : Tri]
Truthy(v) == v = "true"

OpenShape == [deactivated |-> FALSE, is_closed |-> "false", can_access_closed |-> "true"]
RawProfile(n, shape) ==
    [id |-> n, deactivated |-> shape.deactivated, is_closed |-> shape.is_closed,
     can_access_closed |-> shape.can_access_closed]

process_profile_ignores_closed(profile) ==
    [id |-> profile.id, is_private |-> profile.deactivated]
process_profile(profile) ==
    [id |-> profile.id,
     is_private |-> profile.deactivated
                    \/ (Truthy(profile.is_closed) /\ ~Truthy(profile.can_access_closed))]

\* ------------------------------------------------------------- GraphStore
\* users: id -> the two counters of the node (the other properties are
\* copied from the profile and never read); groups: set of ids; friend,
\* subscribed: sets of directed edges.
EmptyDb == [users |-> [x \in {} |-> 0], groups |-> {}, friend |-> {}, subscribed |-> {}]

\* user_data.get(key, 0)
GetOr0(user_data, key) == IF key \in DOMAIN user_data THEN user_data[key] ELSE 0

\* create_user: ok = FALSE is a write that raises inside the transaction
create_user(db, user_data, ok) ==
    IF ~ok THEN db
    ELSE [db EXCEPT !.users =
            [x \in (DOMAIN db.users) \cup {user_data.id} |->
                IF x = user_data.id
                  THEN [friends_count |-> GetOr0(user_data, "friends_count"),
                        subscriptions_count |-> GetOr0(user_data, "subscriptions_count")]
                  ELSE db.users[x]]]

create_group(db, group_data, ok) ==
    IF ~ok THEN db ELSE [db EXCEPT !.groups = @ \cup {group_data.id}]

\* MATCH both endpoints, then MERGE the edge: no row matched, no edge
create_friendship(db, user_id1, user_id2, ok) ==
    IF ok /\ user_id1 \in DOMAIN db.users /\ user_id2 \in DOMAIN db.users
      THEN [db EXCEPT !.friend = @ \cup {<<user_id1, user_id2>>}]
      ELSE db

create_subscription(db, user_id, group_id, ok) ==
    IF ok /\ user_id \in DOMAIN db.users /\ group_id \in db.groups
      THEN [db EXCEPT !.subscribed = @ \cup {<<user_id, group_id>>}]
      ELSE db

clear_database_keeps(db) == db
clear_database(db) == EmptyDb

\* lines 69, 97, 117 and 135: each write operation catches every Exception
\* of its transaction, so a failed write never raises into its caller
WriteRaisesOutOnFailure(ok) == ~ok
WriteRaisesOut(ok) == FALSE

\* the wf-th write of a loop fails (wf = 0: none does): the loop was left
\* by that write's exception
LoopRaised(wf) == wf # 0 /\ WriteRaisesOut(FALSE)
\* the k-th write of the loop is issued
Issued(k, wf) == ~LoopRaised(wf) \/ k <= wf
\* the number of writes a loop of n writes issues
IssuedWrites(n, wf) == IF LoopRaised(wf) THEN wf ELSE n

\* the loop of lines 185-190 over the friend records from position i on;
\* w writes were issued before, and the wf-th write of the loop raises
\* (wf = 0: none does)
RECURSIVE SaveFriends(_, _, _, _, _, _)
SaveFriends(db, uid, friends_list, i, w, wf) ==
    IF i > Len(friends_list) \/ ~Issued(w + 1, wf) THEN db
    ELSE LET friend_profile == process_profile(friends_list[i]) IN
         IF friend_profile.is_private
           THEN SaveFriends(db, uid, friends_list, i + 1, w, wf)
           ELSE LET db1 == create_user(db, friend_profile, wf # w + 1)
                    db2 == IF Issued(w + 2, wf)
                             THEN create_friendship(db1, uid, friend_profile.id, wf # w + 2)
                             ELSE db1
                IN  SaveFriends(db2, uid, friends_list, i + 1, w + 2, wf)

\* number of store writes the loop of lines 185-190 issues
FriendWrites(friends_list) ==
    2 * Cardinality({i \in 1..Len(friends_list) : ~process_profile(friends_list[i]).is_private})

\* the loop of lines 255-264 over the group records of one lookup, whose
\* wf-th write raises (wf = 0: none does).  Write 2i-1 is create_group and
\* write 2i is create_subscription of record i.  The loop only adds to the
\* store, so its effect is written as the two sets it adds: the group of
\* record i is added unless its create_group raised, and its edge is added
\* unless its create_subscription raised, the user node is missing, or the
\* group node is missing at that point of the loop.
SaveGroups(db, uid, groups_info, wf) ==
    LET n == Len(groups_info)
        GroupThere(i) ==
            \/ wf # 2 * i - 1
            \/ groups_info[i].id \in db.groups
            \/ \E k \in 1..(i - 1) : groups_info[k].id = groups_info[i].id
        made == { i \in 1..n : wf # 2 * i - 1 /\ Issued(2 * i - 1, wf) }
        tied == { i \in 1..n : /\ wf # 2 * i
                               /\ Issued(2 * i, wf)
                               /\ uid \in DOMAIN db.users
                               /\ GroupThere(i) }
    IN  [db EXCEPT !.groups = @ \cup { groups_info[i].id : i \in made },
                   !.subscribed = @ \cup { <<uid, groups_info[i].id>> : i \in tied }]

\* ------------------------------------------------------------ remote API
\* The remote data set vk: friends (user -> list of user numbers, in the
\* order friends.get returns them), shapes (user -> raw profile shape),
\* subs (user -> number of subscriptions), closed_every (every
\* closed_every-th subscription of a listing is a closed group; 0: none).
\* Each operator is the 'response' payload of one method.
Take(s, n) == SubSeq(s, 1, Min(Max(n, 0), Len(s)))

users_get(vk, key) ==
    << RawProfile(IdValue(key), vk.shapes[IdValue(key)]) >>

friends_get(vk, key, count) ==
    LET all == vk.friends[IdValue(key)] IN
    [count |-> Len(all),
     items |-> [j \in 1..Len(Take(all, count)) |-> RawProfile(all[j], vk.shapes[all[j]])]]

SubItem(vk, pos) ==
    [id |-> pos,
     is_closed |-> IF vk.closed_every > 0 /\ pos % vk.closed_every = 0 THEN 1 ELSE 0]

users_getSubscriptions(vk, key, offset, count) ==
    LET total == vk.subs[IdValue(key)]
        k == Max(0, Min(count, total - offset))
    IN  [count |-> total, items |-> [j \in 1..k |-> SubItem(vk, offset + j)]]

groups_getById(chunk) == [j \in 1..Len(chunk) |-> [id |-> IdValue(chunk[j])]]

\* What the exchanges of one call produce, one entry per attempt.
ApiScripts ==
    { <<RespOk, RespOk, RespOk>>, <<RespNet, RespOk, RespOk>>,
      <<RespNet, RespError, RespOk>>, <<RespPrivate, RespOk, RespOk>>,
      <<RespError, RespPrivate, RespOk>>, <<RespNet, RespError, RespNet>> }

\* the results vk_api_request can give a caller; a result other than the
\* payload is drawn only while the failure budget lasts
CallResults(may_fail) ==
    { r \in { vk_api_request(ApiStart, sc, Retries).result : sc \in ApiScripts } :
        may_fail \/ r = "response" }

\* ------------------------------------------------- SubscriptionCollector
\* line 226: the ids of the items whose closed flag is 0, as str
IsOpenGroup(sub) == sub.is_closed = 0
GroupIds(items) ==
    LET open == SelectSeq(items, IsOpenGroup)
    IN  [j \in 1..Len(open) |-> StrId(open[j].id)]

\* line 229: the loop ends after this page
StopPagingAtEndOnly(n_items, n_ids, limit) == n_items < CountPerRequest
StopPaging(n_items, n_ids, limit) ==
    n_items < CountPerRequest \/ n_ids >= limit

\* line 235
TruncateKeepAll(all_group_ids, limit) == all_group_ids
Truncate(all_group_ids, limit) == PyPrefix(all_group_ids, limit)

\* line 239
GroupChunksDropRest(ids) ==
    [k \in 1..(Len(ids) \div ChunkSize) |->
        SubSeq(ids, (k - 1) * ChunkSize + 1, k * ChunkSize)]
GroupChunks(ids) ==
    [k \in 1..CeilDiv(Len(ids), ChunkSize) |->
        SubSeq(ids, (k - 1) * ChunkSize + 1, Min(k * ChunkSize, Len(ids)))]

\* ------------------------------------------------------------- callers
\* The except clause of the caller runs for this result: the client raised
\* after its retries, or, for users.get, the caller's subscript [0] of
\* line 164 raised on the sentinel dict.
TakesErrorPath(method, r) ==
    r = "exception" \/ (method = "users.get" /\ r = "is_private")

\* payload.get('items', []) of lines 183 and 300: the sentinel is a dict
\* without the key 'items'
ItemsOf(r, payload) == IF r = "response" THEN payload.items ELSE <<>>

\* Where get_user_data goes on after a stage, whose call took the error
\* path or not: the except clause of the profile returns (line 168), the
\* except clauses of the friends and of the subscriptions (lines 194-196,
\* 266-268) fall through to what follows them.
StepAfterAbortOnFailure(stage, failed) ==
    IF failed THEN "expand"
    ELSE CASE stage = "profile" -> "friends"
           [] stage = "friends" -> "subs"
           [] stage = "subs" -> "truncate"
           [] stage = "resolve" -> "save"
StepAfter(stage, failed) ==
    CASE stage = "profile" -> IF failed THEN "expand" ELSE "friends"
      [] stage = "friends" -> "subs"
      [] stage = "subs" -> IF failed THEN "save" ELSE "truncate"
      [] stage = "resolve" -> "save"

\* one call as seen by its caller
Event(caller, method, user_id, r) ==
    [caller |-> caller, method |-> method, user_id |-> user_id, result |-> r,
     error_path |-> TakesErrorPath(method, r)]

\* ------------------------------------------------------ CrawlOrchestrator
\* line 284
IsVisited(user_id, visited) == user_id \in visited

\* line 290
ShouldExpandInclusive(current_depth, limit) == current_depth <= limit
ShouldExpand(current_depth, limit) == current_depth < limit

\* lines 300-303: the friends the recursion goes into, in list order
RECURSIVE OpenFriendIds(_, _)
OpenFriendIds(friends_list, i) ==
    IF i > Len(friends_list) THEN <<>>
    ELSE (IF process_profile(friends_list[i]).is_private THEN <<>>
          ELSE <<process_profile(friends_list[i]).id>>)
         \o OpenFriendIds(friends_list, i + 1)

\* ----------------------------------------------------------------- state
VARIABLES
    vk,             \* the remote data set (does not change during a run)
    args,           \* depth_limit, friends_limit, subscriptions_limit, query
    mainpc,         \* position in main
    db,             \* the graph store
    visited_users,  \* the set shared by the whole recursion
    stack,          \* the active calls of get_detailed_data, innermost last
    loc,            \* the locals of the running get_user_data
    answers,        \* what execute_queries printed
    fetched,        \* user -> number of runs of get_user_data in this crawl
    faults,         \* failed API calls and failed store writes so far
    run,            \* number of crawls started
    hist,           \* what the running get_user_data requested so far
    after_run1,     \* the store's four counts at the end of the first crawl
    api,            \* one call of vk_api_request, attempt by attempt
    api_in,         \* that call's retries and the outcome of each exchange
    events          \* the API calls of this crawl, in the order they were made

vars == <<vk, args, mainpc, db, visited_users, stack, loc, answers, fetched,
          faults, run, hist, after_run1, api, api_in, events>>

NoUser == [id |-> 0, is_private |-> FALSE]
LocStart ==
    [user_info |-> NoUser, friends_count |-> 0, subscriptions_count |-> 0,
     offset |-> 0, all_group_ids |-> <<>>, group_chunks |-> <<>>]
\* user: whose step it is; offsets: the offsets of the listing requests;
\* listing_ok: every listing request returned a payload; collected: the
\* number of ids before the cut; handed: the ids after it; lookups: the
\* chunks of the lookup calls; resolved: the loop over the chunks is over
\* gathered: the non-private friends of the friends loop; friends_result:
\* what friends.get gave; subs_raised: a listing or lookup call raised;
\* pages: per listing page, the number of items and of ids accumulated
\* after it; reported: the count of the last page; accumulated: the ids
\* before the cut; groups: the records the lookups returned; writes: the
\* store writes issued; failed_write: which of them failed (0: none);
\* saved: line 275 was reached
HistStart ==
    [user |-> <<"none", 0>>, offsets |-> <<>>, listing_ok |-> TRUE, collected |-> 0,
     truncated |-> FALSE, handed |-> <<>>, lookups |-> <<>>, lookup_raised |-> FALSE,
     resolved |-> FALSE, gathered |-> <<>>, friends_result |-> "none",
     subs_raised |-> FALSE, pages |-> <<>>, reported |-> 0, accumulated |-> <<>>,
     groups |-> <<>>, writes |-> 0, failed_write |-> 0, saved |-> FALSE]
NoCounts == [users |-> 0, groups |-> 0, friend |-> 0, subscribed |-> 0]
Counts(d) ==
    [users |-> Cardinality(DOMAIN d.users), groups |-> Cardinality(d.groups),
     friend |-> Cardinality(d.friend), subscribed |-> Cardinality(d.subscribed)]

Frame(user_id, current_depth) ==
    [user_id |-> user_id, current_depth |-> current_depth, pc |-> "enter",
     friends_list |-> <<>>, todo |-> <<>>]
Top == stack[Len(stack)]
Pop == SubSeq(stack, 1, Len(stack) - 1)
SetTop(f) == [stack EXCEPT ![Len(stack)] = f]
At(pc) == mainpc = "crawl" /\ stack # <<>> /\ Top.pc = pc
\* failures are injected into the crawl main starts, at most MaxFaults of them
MayFail == faults < MaxFaults /\ run <= 1
Failed(result) == IF result = "response" THEN 0 ELSE 1

Queries == {"total_users", "total_groups", "top_groups", "top_users", "mutual_friends"}

\* ------------------------------------------------------------------ main
\* line 407
ClearDatabase ==
    /\ mainpc = "start"
    /\ db' = clear_database(db)
    /\ mainpc' = "cleared"
    /\ UNCHANGED <<vk, args, visited_users, stack, loc, answers, fetched, faults,
                   run, hist, after_run1, api, api_in, events>>

\* what one analytic query returns (lines 322-367); the two rankings are
\* reduced to the number of rows they print
QueryResult(q_type, d) ==
    CASE q_type = "total_users" -> Cardinality(DOMAIN d.users)
      [] q_type = "total_groups" -> Cardinality(d.groups)
      [] q_type = "top_users" -> Min(5, Cardinality({e[1] : e \in d.friend}))
      [] q_type = "top_groups" -> Min(5, Cardinality(d.groups))
      [] q_type = "mutual_friends" ->
            Cardinality({e \in d.friend : <<e[2], e[1]>> \in d.friend /\ e[1] < e[2]})

\* lines 316-320, in the order of the list of line 320
QueriesToExecute(query_type) ==
    IF query_type # "none" THEN <<query_type>>
    ELSE <<"total_users", "total_groups", "top_groups", "top_users", "mutual_friends">>

execute_queries(d, query_type) ==
    [i \in 1..Len(QueriesToExecute(query_type)) |->
        <<QueriesToExecute(query_type)[i], QueryResult(QueriesToExecute(query_type)[i], d)>>]

\* lines 409-411: a selected query is run instead of the crawl
QueryOnly ==
    /\ mainpc = "cleared"
    /\ args.query # "none"
    /\ answers' = execute_queries(db, args.query)
    /\ mainpc' = "done"
    /\ UNCHANGED <<vk, args, db, visited_users, stack, loc, fetched, faults, run,
                   hist, after_run1, api, api_in, events>>

\* lines 414-415 and 281-282: the first call, with a new visited set
StartCrawl ==
    /\ mainpc = "cleared"
    /\ args.query = "none"
    /\ mainpc' = "crawl"
    /\ visited_users' = {}
    /\ stack' = << Frame(StrId(Root), 1) >>
    /\ run' = run + 1
    /\ fetched' = [u \in Users |-> 0]
    /\ events' = <<>>
    /\ UNCHANGED <<vk, args, db, loc, answers, faults, hist, after_run1, api, api_in>>

\* lines 416-419: the crawl returned, all queries are run
QueryAll ==
    /\ mainpc = "crawl"
    /\ stack = <<>>
    /\ answers' = execute_queries(db, "none")
    /\ after_run1' = IF run = 1 THEN Counts(db) ELSE after_run1
    /\ mainpc' = "done"
    /\ UNCHANGED <<vk, args, db, visited_users, stack, loc, fetched, faults, run,
                   hist, api, api_in, events>>

\* get_detailed_data called once more on the store as the crawl left it
\* (not a path of main, which wipes the store first): the second run of a
\* crawl "twice in succession"
CrawlAgain ==
    /\ mainpc = "done"
    /\ run >= 1
    /\ run < MaxRuns
    /\ faults = 0
    /\ mainpc' = "crawl"
    /\ visited_users' = {}
    /\ stack' = << Frame(StrId(Root), 1) >>
    /\ run' = run + 1
    /\ fetched' = [u \in Users |-> 0]
    /\ events' = <<>>
    /\ UNCHANGED <<vk, args, db, loc, answers, faults, hist, after_run1, api, api_in>>

\* ----------------------------------------------------- get_detailed_data
\* lines 284-288: the visited test, and the call of get_user_data
Enter ==
    /\ At("enter")
    /\ IF IsVisited(Top.user_id, visited_users)
         THEN /\ stack' = Pop
              /\ UNCHANGED <<visited_users, fetched, loc, hist>>
         ELSE /\ visited_users' = visited_users \cup {Top.user_id}
              /\ stack' = SetTop([Top EXCEPT !.pc = "profile"])
              /\ fetched' = [fetched EXCEPT ![IdValue(Top.user_id)] = @ + 1]
              /\ loc' = LocStart
              /\ hist' = [HistStart EXCEPT !.user = Top.user_id]
    /\ UNCHANGED <<vk, args, mainpc, db, answers, faults, run, after_run1, api, api_in, events>>

\* ---------------------------------------------------------- get_user_data
\* lines 160-168: users.get; the sentinel has no element 0, so the
\* subscript of line 164 raises and the sentinel ends the step through the
\* except clause, like an exhausted call
FetchProfile ==
    /\ At("profile")
    /\ \E r \in CallResults(MayFail) :
        /\ faults' = faults + Failed(r)
        /\ events' = Append(events, Event("get_user_data", "users.get", Top.user_id, r))
        /\ IF TakesErrorPath("users.get", r)
             THEN loc' = loc
             ELSE loc' = [loc EXCEPT !.user_info =
                            process_profile(users_get(vk, Top.user_id)[1])]
        /\ stack' = SetTop([Top EXCEPT
                              !.pc = StepAfter("profile", TakesErrorPath("users.get", r))])
    /\ UNCHANGED <<vk, args, mainpc, db, visited_users, answers, fetched, run, hist,
                   after_run1, api, api_in>>

\* the store writes of a loop that may raise: none (0), or one of the first
WriteFaults(n_writes, may_fail) ==
    IF may_fail THEN 0..Min(n_writes, MaxFaultPos) ELSE {0}

\* lines 175-196: friends.get and the writes for each friend
FetchFriends ==
    /\ At("friends")
    /\ \E r \in CallResults(MayFail) :
        LET friends_list == IF TakesErrorPath("friends.get", r) THEN <<>>
                            ELSE ItemsOf(r, friends_get(vk, Top.user_id, args.friends_limit))
        IN  \E wf \in WriteFaults(FriendWrites(friends_list), faults + Failed(r) < MaxFaults) :
              /\ db' = SaveFriends(db, loc.user_info.id, friends_list, 1, 0, wf)
              /\ faults' = faults + Failed(r) + (IF wf = 0 THEN 0 ELSE 1)
              /\ loc' = [loc EXCEPT !.friends_count = IF LoopRaised(wf) THEN 0
                                                      ELSE Len(friends_list),
                                    !.offset = 0, !.all_group_ids = <<>>]
              /\ hist' = [hist EXCEPT
                            !.gathered = OpenFriendIds(friends_list, 1),
                            !.friends_result = r,
                            !.writes = @ + IssuedWrites(FriendWrites(friends_list), wf),
                            !.failed_write = IF wf # 0 THEN hist.writes + wf ELSE @]
              /\ events' = Append(events,
                                  Event("get_user_data", "friends.get", Top.user_id, r))
              /\ stack' = SetTop([Top EXCEPT
                                    !.pc = StepAfter("friends",
                                                     TakesErrorPath("friends.get", r))])
    /\ UNCHANGED <<vk, args, mainpc, visited_users, answers, fetched, run,
                   after_run1, api, api_in>>

\* lines 206-232: one iteration of the paging loop
FetchSubsPage ==
    /\ At("subs")
    /\ \E r \in CallResults(MayFail) :
        /\ faults' = faults + Failed(r)
        /\ events' = Append(events, Event("get_user_data", "users.getSubscriptions",
                                          Top.user_id, r))
        /\ IF TakesErrorPath("users.getSubscriptions", r)
             THEN /\ loc' = [loc EXCEPT !.subscriptions_count = 0]
                  /\ hist' = [hist EXCEPT !.offsets = Append(@, loc.offset),
                                          !.listing_ok = FALSE,
                                          !.subs_raised = TRUE]
                  /\ stack' = SetTop([Top EXCEPT !.pc = StepAfter("subs", TRUE)])
             ELSE LET subscriptions ==
                        IF r = "response"
                          THEN users_getSubscriptions(vk, Top.user_id, loc.offset,
                                                      CountPerRequest)
                          ELSE [count |-> 0, items |-> <<>>]
                      ids == loc.all_group_ids \o GroupIds(subscriptions.items)
                  IN  /\ hist' = [hist EXCEPT
                                    !.offsets = Append(@, loc.offset),
                                    !.listing_ok = @ /\ r = "response",
                                    !.pages = Append(@, [items |-> Len(subscriptions.items),
                                                         acc |-> Len(ids)]),
                                    !.reported = subscriptions.count]
                      /\ IF StopPaging(Len(subscriptions.items), Len(ids),
                                       args.subscriptions_limit)
                           THEN /\ loc' = [loc EXCEPT
                                             !.subscriptions_count = subscriptions.count,
                                             !.all_group_ids = ids]
                                /\ stack' = SetTop([Top EXCEPT !.pc = StepAfter("subs", FALSE)])
                           ELSE /\ loc' = [loc EXCEPT
                                             !.subscriptions_count = subscriptions.count,
                                             !.all_group_ids = ids,
                                             !.offset = @ + CountPerRequest]
                                /\ stack' = stack
    /\ UNCHANGED <<vk, args, mainpc, db, visited_users, answers, fetched, run,
                   after_run1, api, api_in>>

\* lines 235-239: the cut to subscriptions_limit and the chunks
TruncateIds ==
    /\ At("truncate")
    /\ LET ids == Truncate(loc.all_group_ids, args.subscriptions_limit)
           chunks == IF ids # <<>> THEN GroupChunks(ids) ELSE <<>>
       IN  /\ loc' = [loc EXCEPT !.all_group_ids = ids, !.group_chunks = chunks]
           /\ hist' = [hist EXCEPT !.collected = Len(loc.all_group_ids),
                                   !.accumulated = loc.all_group_ids,
                                   !.truncated = TRUE, !.handed = ids,
                                   !.resolved = (chunks = <<>>)]
           /\ stack' = SetTop([Top EXCEPT !.pc = IF chunks = <<>> THEN "save" ELSE "resolve"])
    /\ UNCHANGED <<vk, args, mainpc, db, visited_users, answers, fetched, faults, run,
                   after_run1, api, api_in, events>>

\* lines 240-264: the lookup of one chunk and the writes for each group
ResolveChunk ==
    /\ At("resolve")
    /\ LET chunk == Head(loc.group_chunks)
           rest == Tail(loc.group_chunks)
       IN  \E r \in CallResults(MayFail) :
             /\ events' = Append(events, Event("get_user_data", "groups.getById",
                                               Top.user_id, r))
             /\ IF TakesErrorPath("groups.getById", r)
                  THEN /\ loc' = [loc EXCEPT !.subscriptions_count = 0]
                       /\ hist' = [hist EXCEPT !.lookups = Append(@, chunk),
                                               !.lookup_raised = TRUE, !.resolved = TRUE,
                                               !.subs_raised = TRUE]
                       /\ faults' = faults + 1
                       /\ db' = db
                       /\ stack' = SetTop([Top EXCEPT !.pc = StepAfter("resolve", TRUE)])
                  ELSE LET groups_info == IF r = "response" THEN groups_getById(chunk)
                                          ELSE <<>>
                       IN  \E wf \in WriteFaults(2 * Len(groups_info),
                                                 faults + Failed(r) < MaxFaults) :
                             LET over == rest = <<>> \/ LoopRaised(wf) IN
                             /\ db' = SaveGroups(db, loc.user_info.id, groups_info, wf)
                             /\ faults' = faults + Failed(r) + (IF wf = 0 THEN 0 ELSE 1)
                             /\ loc' = [loc EXCEPT
                                          !.group_chunks = rest,
                                          !.subscriptions_count =
                                              IF LoopRaised(wf) THEN 0 ELSE @]
                             /\ hist' = [hist EXCEPT
                                           !.lookups = Append(@, chunk),
                                           !.resolved = over,
                                           !.groups = @ \o groups_info,
                                           !.writes = @ + IssuedWrites(2 * Len(groups_info), wf),
                                           !.failed_write = IF wf # 0 THEN hist.writes + wf ELSE @]
                             /\ stack' = SetTop([Top EXCEPT
                                                   !.pc = IF over THEN StepAfter("resolve", FALSE)
                                                          ELSE "resolve"])
    /\ UNCHANGED <<vk, args, mainpc, visited_users, answers, fetched, run,
                   after_run1, api, api_in>>

\* lines 271-275: the node of the crawled user, with its two counts.  The
\* call of line 275 is in no try block: a write that raised out of
\* create_user would leave get_user_data and get_detailed_data, to be caught
\* by the caller's except clause (line 310, or line 421 for the root).
SaveUser ==
    /\ At("save")
    /\ \E wf \in WriteFaults(1, MayFail) :
        /\ db' = create_user(db,
                    [id |-> loc.user_info.id,
                     friends_count |-> loc.friends_count,
                     subscriptions_count |-> loc.subscriptions_count], wf = 0)
        /\ faults' = faults + (IF wf = 0 THEN 0 ELSE 1)
        /\ hist' = [hist EXCEPT !.saved = TRUE, !.writes = @ + 1,
                                !.failed_write = IF wf # 0 THEN hist.writes + wf ELSE @]
        /\ IF LoopRaised(wf)
             THEN /\ stack' = SubSeq(stack, 1, Len(stack) - 2)
                  /\ mainpc' = IF Len(stack) = 1 THEN "done" ELSE mainpc
             ELSE /\ stack' = SetTop([Top EXCEPT !.pc = "expand"])
                  /\ mainpc' = mainpc
    /\ UNCHANGED <<vk, args, visited_users, loc, answers, fetched, run,
                   after_run1, api, api_in, events>>

\* ----------------------------------------------------- get_detailed_data
\* lines 290-311: the depth test and the second friends.get
Expand ==
    /\ At("expand")
    /\ IF ShouldExpand(Top.current_depth, args.depth_limit)
         THEN \E r \in CallResults(MayFail) :
                LET friends_list ==
                      IF TakesErrorPath("friends.get", r) THEN <<>>
                      ELSE ItemsOf(r, friends_get(vk, Top.user_id, args.friends_limit))
                IN  /\ stack' = SetTop([Top EXCEPT !.pc = "recurse",
                                                   !.friends_list = friends_list,
                                                   !.todo = OpenFriendIds(friends_list, 1)])
                    /\ faults' = faults + Failed(r)
                    /\ events' = Append(events, Event("get_detailed_data", "friends.get",
                                                      Top.user_id, r))
         ELSE /\ stack' = Pop
              /\ faults' = faults
              /\ events' = events
    /\ UNCHANGED <<vk, args, mainpc, db, visited_users, loc, answers, fetched, run, hist,
                   after_run1, api, api_in>>

\* lines 301-307: the next recursive call, or the return after the last
Recurse ==
    /\ At("recurse")
    /\ IF Top.todo = <<>>
         THEN stack' = Pop
         ELSE stack' = Append(SetTop([Top EXCEPT !.todo = Tail(@)]),
                              Frame(IntId(Head(Top.todo)), Top.current_depth + 1))
    /\ UNCHANGED <<vk, args, mainpc, db, visited_users, loc, answers, fetched, faults,
                   run, hist, after_run1, api, api_in, events>>

\* -------------------------------------------------------- vk_api_request
\* one iteration of the loop of lines 15-35
ApiTry ==
    /\ api.status = "running"
    /\ api.attempt < api_in.retries
    /\ api' = ApiAttempt(api, api_in.resps[api.attempt + 1], api_in.retries)
    /\ UNCHANGED <<vk, args, mainpc, db, visited_users, stack, loc, answers, fetched,
                   faults, run, hist, after_run1, api_in, events>>

\* line 37
ApiRaise ==
    /\ api.status = "running"
    /\ api.attempt >= api_in.retries
    /\ api' = ApiGiveUp(api)
    /\ UNCHANGED <<vk, args, mainpc, db, visited_users, stack, loc, answers, fetched,
                   faults, run, hist, after_run1, api_in, events>>

\* ------------------------------------------------------- initial states
RECURSIVE SortedSeq(_)
SortedSeq(S) ==
    IF S = {} THEN <<>>
    ELSE LET m == CHOOSE x \in S : \A y \in S : x <= y
         IN  <<m>> \o SortedSeq(S \ {m})

\* friendships are mutual: an undirected graph with at most MaxEdges edges
Pairs == { e \in Users \X Users : e[1] < e[2] }
Graphs == { E \in SUBSET Pairs : Cardinality(E) <= MaxEdges }
FriendsIn(E) ==
    [u \in Users |-> SortedSeq({ v \in Users : <<u, v>> \in E \/ <<v, u>> \in E })]

\* the shapes the last user's record takes; the other users are open
Shapes ==
    { OpenShape,
      [deactivated |-> TRUE, is_closed |-> "absent", can_access_closed |-> "absent"],
      [deactivated |-> FALSE, is_closed |-> "true", can_access_closed |-> "absent"],
      [deactivated |-> FALSE, is_closed |-> "true", can_access_closed |-> "true"] }

\* what an earlier run left in the persistent store
LeftoverDb ==
    [users |-> [x \in {2, 9} |-> [friends_count |-> 1, subscriptions_count |-> 0]],
     groups |-> {7}, friend |-> {<<9, 2>>}, subscribed |-> {<<9, 7>>}]

ApiIdle == [retries |-> 0, resps |-> <<>>]

InitProgram ==
    /\ mainpc = "start"
    /\ db \in {EmptyDb, LeftoverDb}
    /\ visited_users = {}
    /\ stack = <<>>
    /\ loc = LocStart
    /\ answers = <<>>
    /\ fetched = [u \in Users |-> 0]
    /\ faults = 0
    /\ run = 0
    /\ hist = HistStart
    /\ after_run1 = NoCounts
    /\ events = <<>>

SmallData(E, shape) ==
    [friends |-> FriendsIn(E),
     shapes |-> [u \in Users |-> IF u = NUsers THEN shape ELSE OpenShape],
     subs |-> [u \in Users |-> Max(0, 3 - u)],
     closed_every |-> 2]

DefaultArgs ==
    [depth_limit |-> DefaultDepthLimit, friends_limit |-> DefaultFriendsLimit,
     subscriptions_limit |-> DefaultSubscriptionsLimit, query |-> "none"]

Init ==
    /\ InitProgram
    /\ api = ApiStart
    /\ api_in = ApiIdle
    /\ \/ /\ vk \in { SmallData(E, OpenShape) : E \in Graphs }
          /\ args \in { [DefaultArgs EXCEPT !.depth_limit = d] : d \in 0..MaxDepthLimit }
       \* a private last user is met at depth 1 or 2 of the friend lists
       \/ /\ vk \in { SmallData(E, sh) : E \in Graphs, sh \in Shapes \ {OpenShape} }
          /\ args \in { [DefaultArgs EXCEPT !.depth_limit = d] : d \in {1, 2} }
       \/ /\ vk = SmallData({<<1, 2>>}, OpenShape)
          /\ args \in { [DefaultArgs EXCEPT !.query = q] : q \in Queries }

Next ==
    \/ ClearDatabase
    \/ QueryOnly
    \/ StartCrawl
    \/ QueryAll
    \/ CrawlAgain
    \/ Enter
    \/ FetchProfile
    \/ FetchFriends
    \/ FetchSubsPage
    \/ TruncateIds
    \/ ResolveChunk
    \/ SaveUser
    \/ Expand
    \/ Recurse

Spec == Init /\ [][Next]_vars

\* ---------------------------------------------- long subscription lists
\* The root and one friend; the root has up to MaxPages full pages of
\* subscriptions and a remainder.
Totals == { p * CountPerRequest + d : p \in 0..MaxPages, d \in {0, 1, 50, 199} }
Limits == { -1, 0, 1, 40, DefaultSubscriptionsLimit, ChunkSize, ChunkSize + 1, 1200, 2000 }

LongData(total, every) ==
    [friends |-> FriendsIn({<<1, 2>>}),
     shapes |-> [u \in Users |-> OpenShape],
     subs |-> [u \in Users |-> IF u = Root THEN total ELSE 0],
     closed_every |-> every]

InitSubs ==
    /\ InitProgram
    /\ api = ApiStart
    /\ api_in = ApiIdle
    /\ vk \in { LongData(total, every) : total \in Totals, every \in {0, 2} }
    /\ args \in { [DefaultArgs EXCEPT !.depth_limit = 2, !.subscriptions_limit = l] :
                    l \in Limits }

NextSubs ==
    \/ ClearDatabase
    \/ StartCrawl
    \/ QueryAll
    \/ Enter
    \/ FetchProfile
    \/ FetchFriends
    \/ FetchSubsPage
    \/ TruncateIds
    \/ ResolveChunk
    \/ SaveUser
    \/ Expand
    \/ Recurse

SpecSubs == InitSubs /\ [][NextSubs]_vars

\* ------------------------------------------------- one call of the client
InitApi ==
    /\ InitProgram
    /\ vk = SmallData({<<1, 2>>}, OpenShape)
    /\ args = DefaultArgs
    /\ api = ApiStart
    /\ api_in \in { [retries |-> n, resps |-> rs] :
                      n \in 0..MaxRetries, rs \in [1..MaxRetries -> Responses] }

NextApi ==
    \/ ApiTry
    \/ ApiRaise

SpecApi == InitApi /\ [][NextApi]_vars

\* ============================================================ properties
\* The raw record is private: it is deactivated, or closed with the
\* can-access-closed flag absent or false (stated on the record itself).
PrivateRaw(shape) ==
    \/ shape.deactivated
    \/ (shape.is_closed = "true" /\ shape.can_access_closed \in {"absent", "false"})

\* the records friends.get returns for the root, and the users among them
\* whose record is not private
RootFriends == friends_get(vk, StrId(Root), args.friends_limit).items
RootFriendIds == { RootFriends[i].id : i \in 1..Len(RootFriends) }
RootOpenFriendIds ==
    { RootFriends[i].id : i \in { j \in 1..Len(RootFriends) : ~PrivateRaw(RootFriends[j]) } }

\* the first crawl of a run of main is over, and no call or write failed
FirstCrawlDone == mainpc = "done" /\ run = 1 /\ args.query = "none"

\* C1: after a crawl on a wiped store in which every API call and every
\* store write succeeds, every non-private friend of the root's friends
\* list has a User node and a FRIEND edge from the root; the root has a
\* node, and there are exactly as many friend nodes and FRIEND edges
\* leaving the root as the list has non-private friends (2 and 2 for a
\* root with 3 friends, one of them private).
C1_RootFriendsStored ==
    (FirstCrawlDone /\ faults = 0) =>
        /\ \A f \in RootOpenFriendIds :
              f \in DOMAIN db.users /\ <<Root, f>> \in db.friend
        /\ Root \in DOMAIN db.users
        /\ Cardinality(RootFriendIds \cap DOMAIN db.users) = Cardinality(RootOpenFriendIds)
        /\ Cardinality({ e \in db.friend : e[1] = Root }) = Cardinality(RootOpenFriendIds)

\* C2: within one crawl every user, the root supplied as the starting
\* identifier included, is fetched and expanded (get_user_data run for it)
\* at most once.
C2_FetchedAtMostOnce == \A u \in Users : fetched[u] <= 1

\* C3: a second crawl from the same root on the store the first one left,
\* with every call succeeding, leaves the same numbers of User nodes, Group
\* nodes, FRIEND edges and SUBSCRIBED_TO edges as the first.
C3_SecondRunSameCounts ==
    (mainpc = "done" /\ run = 2 /\ faults = 0) => Counts(db) = after_run1

\* C4: with depth_limit = 1, during and at the end of a crawl on a wiped
\* store the only User nodes are the root and the non-private members of
\* the root's friends list, and only the root was fetched and expanded.
C4_DepthOneOnlyDirectFriends ==
    (args.depth_limit = 1 /\ run = 1 /\ mainpc \in {"crawl", "done"}) =>
        /\ DOMAIN db.users \subseteq {Root} \cup RootOpenFriendIds
        /\ \A u \in Users \ {Root} : fetched[u] = 0
        /\ fetched[Root] <= 1

\* C4's case: a crawl with depth_limit = 1 ended, a friend of the root has
\* a node, and that friend has a friend who is neither the root nor a
\* friend of the root
C4_Witness ==
    /\ FirstCrawlDone
    /\ args.depth_limit = 1
    /\ \E f \in RootOpenFriendIds :
          /\ f \in DOMAIN db.users
          /\ \E i \in 1..Len(vk.friends[f]) :
                vk.friends[f][i] \notin RootFriendIds \cup {Root}

\* C5 as stated: for every depth_limit no call of get_detailed_data runs
\* at a depth greater than depth_limit.
C5_DepthWithinLimit ==
    \A i \in 1..Len(stack) : stack[i].current_depth <= args.depth_limit

\* C5 amended: the root is always processed, at depth 1, also when
\* depth_limit is below 1; every call runs at its parent's depth + 1 and
\* none at a depth greater than max(1, depth_limit).
C5_DepthWithinLimitOrRoot ==
    \A i \in 1..Len(stack) :
        /\ stack[i].current_depth = i
        /\ stack[i].current_depth <= Max(1, args.depth_limit)

\* C5's case: a user is being fetched at depth depth_limit = MaxDepthLimit
C5_Witness ==
    /\ At("friends")
    /\ args.depth_limit = MaxDepthLimit
    /\ Top.current_depth = args.depth_limit
    /\ Top.current_depth >= 2

\* C6 as stated: a call whose 3 attempts all fail raises after the 3rd
\* attempt having slept exactly twice, with no sleep after the last
\* failed attempt.
C6_TwoSleepsOnExhaustion ==
    (api.status = "raised" /\ api_in.retries = Retries) =>
        /\ api.attempt = Retries
        /\ api.sleeps = Retries - 1

\* the subscriptions of the root were collected and cut: 650 of them, none
\* closed, subscriptions_limit = 300, every listing request answered
C7_Scenario ==
    /\ hist.user = StrId(Root)
    /\ hist.truncated
    /\ hist.listing_ok
    /\ vk.subs[Root] = 650
    /\ vk.closed_every = 0
    /\ args.subscriptions_limit = 300

\* C7 as stated: listing requests at offsets 0, 200 and 400, and 300 ids
\* handed to group resolution, cut from 400 collected.
C7_OffsetsThrough400 ==
    C7_Scenario =>
        /\ hist.offsets = <<0, 200, 400>>
        /\ Len(hist.handed) = 300
        /\ hist.collected = 400

\* C7 amended: listing requests at offsets 0 and 200 only (400 ids are
\* collected after the second page, which reaches the limit of 300, so
\* offset 400 is never requested), and the first 300 collected ids are
\* handed to group resolution.
C7_OffsetsThrough200 ==
    C7_Scenario =>
        /\ hist.offsets = <<0, 200>>
        /\ hist.collected = 400
        /\ hist.handed = [j \in 1..300 |-> StrId(j)]

\* C7's case: the scenario's ids were cut and resolved
C7_Witness == C7_Scenario /\ hist.resolved /\ Len(hist.handed) = 300

\* the k-th chunk of at most 500 ids of a list
ExpectedChunk(ids, k) == SubSeq(ids, 500 * (k - 1) + 1, Min(500 * k, Len(ids)))

\* C8 as stated: for a cut list of n ids exactly ceil(n/500) lookup calls
\* are issued, in list order, of 500 ids each but the last, and the chunks
\* concatenated give the list; 3 calls of 500, 500, 200 for n = 1200 and
\* none for n = 0.
C8_ChunkCalls ==
    (hist.truncated /\ hist.resolved) =>
        LET n == Len(hist.handed)
            c == (n + 499) \div 500
        IN  /\ Len(hist.lookups) = c
            /\ \A k \in 1..c :
                  Len(hist.lookups[k]) = IF k < c THEN 500 ELSE n - 500 * (c - 1)
            /\ Concat(hist.lookups) = hist.handed
            /\ (n = 1200) => [k \in 1..3 |-> Len(hist.lookups[k])] = <<500, 500, 200>>
            /\ (n = 0) => hist.lookups = <<>>

\* C8 amended: the lookup calls issued are, in list order, the chunks of at
\* most 500 ids of the cut list; when no lookup call raises there are
\* exactly ceil(n/500) of them and they concatenate to the list (500, 500,
\* 200 for n = 1200, none for n = 0); a lookup call that raises after its
\* retries is the last one issued.
C8_ChunkCallsUnlessRaised ==
    hist.truncated =>
        LET n == Len(hist.handed)
            c == (n + 499) \div 500
        IN  /\ Len(hist.lookups) <= c
            /\ \A k \in 1..Len(hist.lookups) :
                  hist.lookups[k] = ExpectedChunk(hist.handed, k)
            /\ hist.lookup_raised => hist.resolved
            /\ (hist.resolved /\ ~hist.lookup_raised) =>
                  /\ Len(hist.lookups) = c
                  /\ \A k \in 1..c :
                        Len(hist.lookups[k]) = IF k < c THEN 500 ELSE n - 500 * (c - 1)
                  /\ Concat(hist.lookups) = hist.handed
                  /\ (n = 1200) =>
                        [k \in 1..3 |-> Len(hist.lookups[k])] = <<500, 500, 200>>
                  /\ (n = 0) => hist.lookups = <<>>

\* C8's case: 1200 ids were resolved by 3 lookup calls, none of which raised
C8_Witness ==
    /\ hist.truncated
    /\ hist.resolved
    /\ ~hist.lookup_raised
    /\ Len(hist.handed) = 1200
    /\ Len(hist.lookups) = 3

\* C9: a record that is deactivated, or closed with the can-access-closed
\* flag absent or false, is classified private; no friends-list processing
\* writes a User node for such a friend (the only node a private user can
\* have is the root's own), no FRIEND edge points to it, and it never
\* enters the recursion.
C9_PrivateExcluded ==
    /\ \A sh \in RawShapes :
          PrivateRaw(sh) => process_profile(RawProfile(Root, sh)).is_private
    /\ (mainpc # "start") =>
          \A u \in Users :
              PrivateRaw(vk.shapes[u]) =>
                  /\ (u # Root) => (u \notin DOMAIN db.users /\ fetched[u] = 0)
                  /\ \A e \in db.friend : e[2] # u
                  /\ IntId(u) \notin visited_users
                  /\ \A i \in 1..Len(stack) : stack[i].user_id # IntId(u)

\* C9's case: a crawl without failures is over in which a crawled friend of
\* the root has a private friend in its own friends list
C9_Witness ==
    /\ FirstCrawlDone
    /\ faults = 0
    /\ \E u \in Users, v \in Users \ {Root} :
          /\ PrivateRaw(vk.shapes[u])
          /\ fetched[v] = 1
          /\ \E i \in 1..Len(vk.friends[v]) : vk.friends[v][i] = u
          /\ v \in DOMAIN db.users

\* C10: an attempt whose response reports error code 30 returns the
\* sentinel at once (no retry, no sleep for it, no exception); an attempt
\* whose response reports another error code fails like a transport
\* failure: the delay is slept and, while attempts are left, the call goes on.
C10_PrivateSentinel ==
    (api.attempt >= 1) =>
        LET r == api_in.resps[api.attempt] IN
        /\ (r.kind = "error" /\ r.code = 30) =>
              /\ api.status = "returned"
              /\ api.result = "is_private"
              /\ api.sleeps = api.attempt - 1
        /\ (r.kind \in {"http", "net", "badjson"} \/ (r.kind = "error" /\ r.code # 30)) =>
              /\ api.status \in {"running", "raised"}
              /\ api.result \in {"none", "exception"}
              /\ api.sleeps = api.attempt
              /\ (api.attempt < api_in.retries) => api.status = "running"

\* C10's case: the second attempt, made after an attempt that reported
\* another error code, reported code 30 and the sentinel was returned
C10_Witness ==
    /\ api.status = "returned"
    /\ api.result = "is_private"
    /\ api.attempt = 2
    /\ api_in.resps[1].kind = "error"
    /\ api.sleeps = 1

\* the calls get_user_data made for the profile, the friends and the
\* subscription pages of a user
StepFetches == {"users.get", "friends.get", "users.getSubscriptions"}

\* C11: when the profile fetch, the friends fetch or a subscriptions page
\* of a user returns the sentinel {is_private: true}, the caller does not
\* take its error path: no exception is raised and caught for it.
C11_SentinelIsData ==
    \A i \in 1..Len(events) :
        (/\ events[i].caller = "get_user_data"
         /\ events[i].method \in StepFetches
         /\ events[i].result = "is_private") => ~events[i].error_path

\* the first call of a crawl is the profile fetch of the root; it raised
\* after its retries
RootProfileFailed ==
    /\ run = 1
    /\ events # <<>>
    /\ events[1].method = "users.get"
    /\ events[1].user_id = StrId(Root)
    /\ events[1].result = "exception"

\* C12: if the profile fetch of the root fails (retries exhausted), the
\* run is aborted: no further API call is issued, nothing is written to the
\* wiped store and no friend of the root is crawled; a profile fetch of a
\* non-root user that fails ends that user's step without a write, and the
\* caller's loop over the siblings goes on.
C12_RootProfileFailureAborts ==
    /\ RootProfileFailed =>
          /\ Len(events) = 1
          /\ db = EmptyDb
          /\ \A u \in Users \ {Root} : fetched[u] = 0
          /\ Len(stack) <= 1
    /\ (/\ At("expand")
        /\ Len(stack) >= 2
        /\ events[Len(events)].method = "users.get"
        /\ events[Len(events)].result = "exception") =>
          /\ hist.user = Top.user_id
          /\ hist.writes = 0
          /\ stack[Len(stack) - 1].pc = "recurse"

\* C13: a failure inside a store write is caught inside that operation and
\* never raises into the caller; the failed write leaves the store as it
\* was; and the step goes on as it would have had the write succeeded: it
\* issues every write of its loops (two per non-private friend gathered,
\* two per group record received, one for the user's node), keeps the
\* counts it computed, makes every lookup call of the cut list, and main
\* reaches its queries.
C13_WriteFailureContained ==
    /\ ~WriteRaisesOut(FALSE)
    /\ \A u \in Users :
          /\ create_user(db, [id |-> u], FALSE) = db
          /\ create_group(db, [id |-> u], FALSE) = db
          /\ create_friendship(db, Root, u, FALSE) = db
          /\ create_subscription(db, u, 1, FALSE) = db
    /\ hist.writes = 2 * Len(hist.gathered) + 2 * Len(hist.groups)
                       + (IF hist.saved THEN 1 ELSE 0)
    /\ (hist.failed_write # 0 /\ hist.friends_result = "response") =>
          loc.friends_count = Len(friends_get(vk, hist.user, args.friends_limit).items)
    /\ (hist.failed_write # 0 /\ hist.saved /\ ~hist.subs_raised) =>
          /\ loc.subscriptions_count = hist.reported
          /\ hist.truncated => Len(hist.lookups) = CeilDiv(Len(hist.handed), ChunkSize)
    /\ (mainpc = "done" /\ args.query = "none") => Len(answers) = 5

\* C13's case: the first write of a step (the node of the first friend)
\* failed, and the step went on through the remaining friend writes, a
\* lookup with its group writes and the write of the user's node
C13_Witness ==
    /\ At("expand")
    /\ hist.user = Top.user_id
    /\ hist.saved
    /\ hist.failed_write = 1
    /\ hist.writes >= 5
    /\ Len(hist.gathered) >= 1
    /\ Len(hist.lookups) >= 1

\* get_user_data returned for the user of the innermost call
StepOver ==
    /\ mainpc = "crawl"
    /\ stack # <<>>
    /\ Top.pc \in {"expand", "recurse"}
    /\ hist.user = Top.user_id

\* the friends.get of get_detailed_data for this user returned a payload
ExpandAnswered(user_id) ==
    \E j \in 1..Len(events) :
        /\ events[j].caller = "get_detailed_data"
        /\ events[j].user_id = user_id
        /\ events[j].result = "response"

\* s is what is left of t after some of its first elements were taken
IsSuffix(s, t) == Len(s) <= Len(t) /\ s = SubSeq(t, Len(t) - Len(s) + 1, Len(t))

\* C14: if the friends fetch (the subscriptions fetch) of a user fails
\* after its retries, the step still fetches the subscriptions (has fetched
\* the friends), still reaches the write of the user's node, and that node
\* carries friends_count 0 (subscriptions_count 0) unless a store write
\* failed; every caller up the recursion stays in its loop over its own
\* friends list, which is the list its own friends.get returned, so the
\* siblings are crawled as without the failure.
C14_FetchFailureIsLocal ==
    /\ hist.friends_result = "exception" => loc.friends_count = 0
    /\ (StepOver /\ hist.friends_result = "exception") =>
          /\ hist.saved
          /\ hist.offsets # <<>>
          /\ hist.failed_write = 0 =>
                /\ loc.user_info.id \in DOMAIN db.users
                /\ db.users[loc.user_info.id].friends_count = 0
    /\ hist.subs_raised => (loc.subscriptions_count = 0 /\ hist.friends_result # "none")
    /\ (StepOver /\ hist.subs_raised) =>
          /\ hist.saved
          /\ hist.failed_write = 0 =>
                /\ loc.user_info.id \in DOMAIN db.users
                /\ db.users[loc.user_info.id].subscriptions_count = 0
                /\ db.users[loc.user_info.id].friends_count = loc.friends_count
    /\ \A i \in 1..Len(stack) :
          /\ i < Len(stack) => stack[i].pc = "recurse"
          /\ stack[i].pc = "recurse" =>
                /\ IsSuffix(stack[i].todo, OpenFriendIds(stack[i].friends_list, 1))
                /\ ExpandAnswered(stack[i].user_id) =>
                      stack[i].friends_list =
                          friends_get(vk, stack[i].user_id, args.friends_limit).items

\* C14's case: the friends fetch of a friend of the root failed; the
\* friend's node was written with friends_count 0 after its subscriptions
\* were fetched, and the root still has a sibling to recurse into
C14_Witness ==
    /\ At("expand")
    /\ Len(stack) = 2
    /\ hist.user = Top.user_id
    /\ hist.friends_result = "exception"
    /\ hist.saved
    /\ hist.offsets # <<>>
    /\ IdValue(Top.user_id) \in DOMAIN db.users
    /\ db.users[IdValue(Top.user_id)].friends_count = 0
    /\ stack[1].todo # <<>>

\* the groups the batched lookup resolves for user u when every call
\* succeeds: the records of the non-closed subscriptions of the first
\* page, cut to subscriptions_limit (the users of the small data set have
\* less than one page of subscriptions)
ResolvedFor(u) ==
    LET page == users_getSubscriptions(vk, IntId(u), 0, CountPerRequest)
        ids == Truncate(GroupIds(page.items), args.subscriptions_limit)
    IN  { groups_getById(ids)[j].id : j \in 1..Len(ids) }

\* C15: after a crawl on a wiped store in which every API call and store
\* write succeeds, every crawled user, the root included, has a Group node
\* and a SUBSCRIBED_TO edge from its node for each group the batched lookup
\* resolved for it (also stated at the end of each user's step, on the
\* records that step received).
C15_ResolvedGroupsStored ==
    /\ (run = 1 /\ faults = 0 /\ hist.saved) =>
          \A i \in 1..Len(hist.groups) :
              /\ hist.groups[i].id \in db.groups
              /\ <<loc.user_info.id, hist.groups[i].id>> \in db.subscribed
    /\ (FirstCrawlDone /\ faults = 0) =>
          \A u \in Users : fetched[u] >= 1 =>
              \A g \in ResolvedFor(u) :
                  g \in db.groups /\ <<u, g>> \in db.subscribed

\* a listing page after which the paging stops: it has fewer than 200
\* items, or the ids accumulated with it reach the limit
LastPage(page) == page.items < 200 \/ page.acc >= args.subscriptions_limit

\* the offsets requested are 0, 200, 400, ...; no page before the last
\* answered one is a LastPage; after a LastPage nothing more is requested;
\* and the cut is made only after a LastPage
PagingStopsAtFirstLastPage ==
    /\ \A k \in 1..Len(hist.offsets) : hist.offsets[k] = 200 * (k - 1)
    /\ \A k \in 1..(Len(hist.pages) - 1) : ~LastPage(hist.pages[k])
    /\ (hist.pages # <<>> /\ LastPage(hist.pages[Len(hist.pages)])) =>
          /\ Len(hist.offsets) = Len(hist.pages)
          /\ ~(At("subs") /\ hist.user = Top.user_id)
    /\ hist.truncated =>
          /\ hist.pages # <<>>
          /\ LastPage(hist.pages[Len(hist.pages)])
          /\ Len(hist.accumulated) = hist.pages[Len(hist.pages)].acc

\* C16 as stated: paging requests offsets 0, 200, 400, ... and stops right
\* after the first page that is short or brings the accumulator to limit;
\* the list handed to group resolution is the first min(limit, accumulated
\* count) accumulated ids, has exactly limit entries when at least limit
\* ids were accumulated, and never more than limit.
C16_PagingAndCut ==
    /\ PagingStopsAtFirstLastPage
    /\ hist.truncated =>
          LET n == Len(hist.accumulated)
              limit == args.subscriptions_limit
          IN  /\ hist.handed = SubSeq(hist.accumulated, 1, Min(limit, n))
              /\ n >= limit => Len(hist.handed) = limit
              /\ Len(hist.handed) <= limit

\* C16 amended: the same for every limit >= 0; for a negative limit
\* (argparse accepts it) the paging stops after the first page and the
\* list handed on is the accumulated list without its last -limit ids.
C16_PagingAndCutNonNegative ==
    /\ PagingStopsAtFirstLastPage
    /\ hist.truncated =>
          LET n == Len(hist.accumulated)
              limit == args.subscriptions_limit
          IN  IF limit >= 0
                THEN /\ hist.handed = SubSeq(hist.accumulated, 1, Min(limit, n))
                     /\ n >= limit => Len(hist.handed) = limit
                     /\ Len(hist.handed) <= limit
                ELSE /\ Len(hist.pages) = 1
                     /\ hist.handed = SubSeq(hist.accumulated, 1, Max(0, n + limit))

\* C16's case: three full pages, half of whose groups are closed, were
\* needed to accumulate limit ids, and exactly limit ids were handed on
C16_Witness ==
    /\ hist.truncated
    /\ Len(hist.pages) >= 3
    /\ vk.closed_every = 2
    /\ args.subscriptions_limit > 0
    /\ Len(hist.handed) = args.subscriptions_limit

\* C17: when a crawl completes with every API call and store write
\* succeeding, every crawled user has a User node whose friends_count is
\* the number of items of its friends list and whose subscriptions_count
\* is the count reported for its subscriptions: no later write of the
\* crawl replaced them.
C17_FinalCountsKept ==
    (FirstCrawlDone /\ faults = 0) =>
        \A u \in Users : fetched[u] >= 1 =>
            /\ u \in DOMAIN db.users
            /\ db.users[u].friends_count =
                  Len(friends_get(vk, IntId(u), args.friends_limit).items)
            /\ db.users[u].subscriptions_count = vk.subs[u]

\* C18: at every step that recurses (depth below depth_limit), the users
\* recursed into are exactly the non-private friends gathered in that same
\* step, for every pattern of API call failures.
C18_RecursionEqualsGathered ==
    (At("recurse") /\ hist.user = Top.user_id) =>
        OpenFriendIds(Top.friends_list, 1) = hist.gathered

\* ------------------------------------------------------------ termination
\* Crawls of graphs with cycles and of a user with several pages of
\* subscriptions, next to one call of the client followed attempt by
\* attempt; every step that can be taken is eventually taken.
TwoCycle == { <<1, 2>> }
Chain == { <<1, 2>>, <<2, 3>> }
LiveScripts ==
    { <<RespNet, RespError, RespNet>>, <<RespError, RespPrivate, RespOk>> }

InitLive ==
    /\ InitProgram
    /\ api = ApiStart
    /\ api_in \in { [retries |-> Retries, resps |-> sc] : sc \in LiveScripts }
    /\ \/ /\ vk \in { SmallData(E, OpenShape) : E \in {TwoCycle, Chain} }
          /\ args \in { [DefaultArgs EXCEPT !.depth_limit = d] : d \in 0..MaxDepthLimit }
       \/ /\ vk = LongData(2 * CountPerRequest + 50, 2)
          /\ args \in { [DefaultArgs EXCEPT !.depth_limit = 2, !.subscriptions_limit = l] :
                          l \in {-1, DefaultSubscriptionsLimit} }

NextLive ==
    \/ ClearDatabase
    \/ StartCrawl
    \/ QueryAll
    \/ Enter
    \/ FetchProfile
    \/ FetchFriends
    \/ FetchSubsPage
    \/ TruncateIds
    \/ ResolveChunk
    \/ SaveUser
    \/ Expand
    \/ Recurse
    \/ ApiTry
    \/ ApiRaise

SpecLive ==
    /\ InitLive
    /\ [][NextLive]_vars
    /\ WF_vars(NextLive)

\* C19: for every graph (cycles included), depth_limit, subscriptions_limit
\* and failure pattern, the crawl terminates (main reaches the end of its
\* queries, so the paging and the recursion ended), and each API call ends,
\* after at most 3 attempts.
C19_CrawlTerminates ==
    /\ <>(mainpc = "done" /\ api.status # "running")
    /\ [](api.attempt <= Retries)

\* C19's case: a crawl that came back to the root through a cycle, after a
\* failure, is over, and so is a call all of whose 3 attempts failed
C19_Witness ==
    /\ mainpc = "done"
    /\ fetched[Root] = 2
    /\ faults >= 1
    /\ api.status = "raised"
    /\ api.attempt = Retries

\* C20: in every run of main that connects to the store the wipe comes
\* before any query and before any crawl; in a run with a selected query no
\* crawl happens, so the query is evaluated on the empty store, whatever an
\* earlier run left in it.
C20_WipeBeforeQueryAndCrawl ==
    /\ mainpc = "start" => (answers = <<>> /\ run = 0 /\ stack = <<>> /\ events = <<>>)
    /\ mainpc = "cleared" => (db = EmptyDb /\ answers = <<>> /\ run = 0)
    /\ (run = 1 /\ At("enter") /\ Len(stack) = 1) => db = EmptyDb
    /\ args.query # "none" =>
          /\ run = 0 /\ stack = <<>> /\ events = <<>>
          /\ mainpc # "start" => db = EmptyDb
          /\ mainpc = "done" => answers = <<<<args.query, 0>>>>

\* C20's case: a run with a selected query is over and printed the answer
\* of the empty store
C20_Witness ==
    /\ mainpc = "done"
    /\ args.query = "total_users"
    /\ answers = <<<<"total_users", 0>>>>
    /\ run = 0
====
